---- MODULE Spec2Model ----
(***************************************************************************)
(* Model of winsnap (src/winsnap/winsnap.py): the grid of a monitor        *)
(* profile, the application table that binds windows to grid cells, the    *)
(* window mover and the store of saved profiles.                           *)
(*                                                                         *)
(* Coordinates are Python floats holding integer values; they are modelled *)
(* as integers.  The fractions written by to_dict are modelled as exact    *)
(* rationals (reduced numerator/denominator records), so floating-point    *)
(* rounding error is not part of the model.  Window names, which are       *)
(* strings in the program, are the numbers 1..NumWindows; a window's       *)
(* handle is identified with its name.                                     *)
(***************************************************************************)
EXTENDS Integers, Sequences, FiniteSets, TLC

VARIABLES
    ACTIVE_WINDOWS,   \* keys of AppTable.ACTIVE_WINDOWS (class-level registry)
    monitors,         \* MainWindow._monitors, in enumeration order
    profiles,         \* MainWindow._profiles: tab number -> monitor id -> MonitorProfile
    tab_number,       \* MainWindow._tab_number
    saved_profiles,   \* MainWindow._saved_profiles (the in-memory document)
    disk,             \* contents of profiles.json
    oscalls,          \* OS calls issued by the handler that ran last
    op                \* the handler that ran last

vars == <<ACTIVE_WINDOWS, monitors, profiles, tab_number, saved_profiles, disk, oscalls, op>>

----------------------------------------------------------------------------
(* Bounds *)

NumWindows == 2     \* window names that can ever be live
MaxCells == 2       \* most grid cells of the profile whose table is exercised
GridDim == 2        \* largest row / column count where dividers are dragged
DragSpan == 3       \* how far from an edge of the work area drags are sampled
MaxTabs == 2        \* most profile tabs open at once
NumIds == 3         \* pool of identifiers uuid4 can return
CoordSpan == 2      \* bounds given to the Rectangle constructor lie in -CoordSpan..CoordSpan
BandDim == 3        \* largest row / column count where the band percentages are added up

Windows == 1..NumWindows
MonitorIds == {"m1", "m2"}

----------------------------------------------------------------------------
(* Helpers *)

Abs(n) == IF n < 0 THEN -n ELSE n

\* int(n / d) for d > 0: Python's int() truncates toward zero
Trunc(n, d) == IF n >= 0 THEN n \div d ELSE -((-n) \div d)

RECURSIVE GCD(_, _)
GCD(a, b) == IF b = 0 THEN a ELSE GCD(b, a % b)

\* the float n / d, as an exact rational in lowest terms (d > 0)
Frac(n, d) ==
    LET g == GCD(Abs(n), d)
    IN  [num |-> n \div g, den |-> d \div g]

FracLess(a, b) == a.num * b.den < b.num * a.den

Range(s) == {s[i] : i \in DOMAIN s}

\* sorted(values) for numbers
Sorted(s) == SortSeq(s, LAMBDA a, b : a < b)

\* sorted(values) for the fractions of to_dict
SortedFracs(s) == SortSeq(s, FracLess)

----------------------------------------------------------------------------
(* Rectangle *)

\* A rectangle that keeps the four bounds as they are given
Rectangle_as_given(left, right, top, bottom) ==
    [left |-> left, right |-> right, top |-> top, bottom |-> bottom]

Rectangle(left, right, top, bottom) ==
    [left   |-> IF left > right THEN right ELSE left,
     right  |-> IF left > right THEN left ELSE right,
     top    |-> IF top > bottom THEN bottom ELSE top,
     bottom |-> IF top > bottom THEN top ELSE bottom]

width(r) == r.right - r.left

height(r) == r.bottom - r.top

Monitor(id, work) == [id |-> id, work |-> work]

----------------------------------------------------------------------------
(* get_window_borders, move_window *)

\* Edge differences (window rect minus DWM frame rect) the OS can report
BorderDiffs == {<<0, 0, 0, 0>>, <<-2, 2, 0, 4>>}

\* Which of the three window-changing calls the OS refuses for a window
FailSet == {"none", "restore", "move", "resize"}

OsCall(fn, hwnd, x, y, cx, cy, flags, ok) ==
    [fn |-> fn, hwnd |-> hwnd, x |-> x, y |-> y, cx |-> cx, cy |-> cy,
     flags |-> flags, ok |-> ok]

\* diff[i]: windowrect edge minus frame edge, in the order left, right, top, bottom
get_window_borders(diff) ==
    <<Abs(diff[1]), Abs(diff[2]), Abs(diff[3]), Abs(diff[4])>>

get_window_borders_calls(handle) ==
    <<OsCall("DwmGetWindowAttribute", handle, 0, 0, 0, 0, {"DWMWA_EXTENDED_FRAME_BOUNDS"}, TRUE),
      OsCall("GetWindowRect", handle, 0, 0, 0, 0, {}, TRUE)>>

\* move_window taking the borders in the order left, top, right, bottom
move_window_borders_mixed(handle, x, y, width_, height_, diff, fail) ==
    LET b == get_window_borders(diff)
        left_border == b[1]
        top_border == b[2]
        right_border == b[3]
        bottom_border == b[4]
    IN  get_window_borders_calls(handle) \o
        <<OsCall("ShowWindow", handle, 0, 0, 0, 0, {"SW_RESTORE"}, fail # "restore"),
          OsCall("SetWindowPos", handle, x - left_border, y - top_border, 0, 0,
                 {"SWP_NOZORDER", "SWP_NOACTIVATE", "SWP_NOSIZE"}, fail # "move"),
          OsCall("SetWindowPos", handle, 0, 0,
                 width_ + left_border + right_border,
                 height_ + top_border + bottom_border,
                 {"SWP_NOZORDER", "SWP_NOACTIVATE", "SWP_NOMOVE"}, fail # "resize")>>

\* move_window resizing before it moves
move_window_resize_first(handle, x, y, width_, height_, diff, fail) ==
    LET b == get_window_borders(diff)
    IN  get_window_borders_calls(handle) \o
        <<OsCall("ShowWindow", handle, 0, 0, 0, 0, {"SW_RESTORE"}, fail # "restore"),
          OsCall("SetWindowPos", handle, 0, 0,
                 width_ + b[1] + b[2], height_ + b[3] + b[4],
                 {"SWP_NOZORDER", "SWP_NOACTIVATE", "SWP_NOMOVE"}, fail # "resize"),
          OsCall("SetWindowPos", handle, x - b[1], y - b[3], 0, 0,
                 {"SWP_NOZORDER", "SWP_NOACTIVATE", "SWP_NOSIZE"}, fail # "move")>>

\* The OS calls of one move_window(handle, x, y, width, height); the return
\* values of ShowWindow and SetWindowPos are not looked at.
move_window(handle, x, y, width_, height_, diff, fail) ==
    LET b == get_window_borders(diff)
        left_border == b[1]
        right_border == b[2]
        top_border == b[3]
        bottom_border == b[4]
    IN  get_window_borders_calls(handle) \o
        <<OsCall("ShowWindow", handle, 0, 0, 0, 0, {"SW_RESTORE"}, fail # "restore"),
          OsCall("SetWindowPos", handle, x - left_border, y - top_border, 0, 0,
                 {"SWP_NOZORDER", "SWP_NOACTIVATE", "SWP_NOSIZE"}, fail # "move"),
          OsCall("SetWindowPos", handle, 0, 0,
                 width_ + left_border + right_border,
                 height_ + top_border + bottom_border,
                 {"SWP_NOZORDER", "SWP_NOACTIVATE", "SWP_NOMOVE"}, fail # "resize")>>

----------------------------------------------------------------------------
(* AppTable *)

\* defaultdict(list) lookup without insertion
Get(grid_mapping, row) ==
    IF row \in DOMAIN grid_mapping THEN grid_mapping[row] ELSE {}

UnionOf(grid_mapping) == UNION {grid_mapping[k] : k \in DOMAIN grid_mapping}

\* AppTable.__init__; tables holds, per row widget that exists, the names listed
NewAppTable ==
    [allocated_windows |-> {},
     grid_mapping |-> << >>,
     nrows |-> 0,
     tables |-> << >>]

clear(t) ==
    [t EXCEPT !.tables = [r \in (DOMAIN t.tables) \ (1..t.nrows) |-> t.tables[r]],
              !.nrows = 0]

\* refresh_available_windows listing every live window in every table
refresh_lists_all_active(t, active) ==
    [t EXCEPT
        !.tables = [r \in DOMAIN t.tables |->
                       IF r \in 1..t.nrows THEN active ELSE t.tables[r]],
        !.grid_mapping = [r \in 1..t.nrows |-> Get(t.grid_mapping, r) \cap active]]

\* refresh_available_windows keeping the selections of windows that are gone
refresh_keeps_closed_windows(t, active) ==
    LET available_windows == active \ t.allocated_windows
    IN  [t EXCEPT
            !.tables = [r \in DOMAIN t.tables |->
                           IF r \in 1..t.nrows
                           THEN available_windows \cup (Get(t.grid_mapping, r) \cap active)
                           ELSE t.tables[r]],
            !.grid_mapping = [r \in 1..t.nrows |-> Get(t.grid_mapping, r)]]

refresh_available_windows(t, active) ==
    LET available_windows == active \ t.allocated_windows
        selected_active_windows(row) == Get(t.grid_mapping, row) \cap active
    IN  [t EXCEPT
            !.tables = [r \in DOMAIN t.tables |->
                           IF r \in 1..t.nrows
                           THEN available_windows \cup selected_active_windows(r)
                           ELSE t.tables[r]],
            !.grid_mapping = [r \in 1..t.nrows |-> selected_active_windows(r)]]

selected(t, number, selected_items, active) ==
    LET gm == [k \in (DOMAIN t.grid_mapping) \cup {number} |->
                  IF k = number THEN selected_items ELSE t.grid_mapping[k]]
    IN  refresh_available_windows(
            [t EXCEPT !.grid_mapping = gm, !.allocated_windows = UnionOf(gm)],
            active)

set_rows(t, nrows, active) ==
    [t EXCEPT
        !.tables = [r \in (DOMAIN t.tables) \cup (1..nrows) |->
                       IF r \in DOMAIN t.tables THEN t.tables[r] ELSE active],
        !.nrows = nrows]

----------------------------------------------------------------------------
(* MonitorProfile *)

\* f"{percent:.2f}" of (n / d) * 100, as a whole number of hundredths
\* (round half to even), for n >= 0 and d > 0
Percent(n, d) ==
    LET q == (10000 * n) \div d
        r == (10000 * n) % d
    IN  IF 2 * r < d THEN q
        ELSE IF 2 * r > d THEN q + 1
        ELSE IF q % 2 = 0 THEN q ELSE q + 1

\* [first] + values + [last]
Edges(first, values, last) == <<first>> \o values \o <<last>>

\* The labels with the width of a band taken as a share of the work height
Labels_width_over_height(work, xline_values, yline_values) ==
    LET x_edges == Edges(work.left, xline_values, work.right)
        y_edges == Edges(work.top, yline_values, work.bottom)
        nx == Len(x_edges) - 1
        ny == Len(y_edges) - 1
    IN  [n \in 1..(nx * ny) |->
            LET j == ((n - 1) \div nx) + 1
                i == ((n - 1) % nx) + 1
            IN  [number |-> n,
                 x2 |-> x_edges[i] + x_edges[i + 1],
                 y2 |-> y_edges[ny + 1 - j] + y_edges[ny + 2 - j],
                 x_percent |-> Percent(x_edges[i + 1] - x_edges[i], height(work)),
                 y_percent |-> Percent(y_edges[j + 1] - y_edges[j], height(work))]]

\* The labels drawn by set_labels, in the order they are added.  x2 and y2
\* are twice the coordinates of the annotation (the center of a band pair).
Labels(work, xline_values, yline_values) ==
    LET x_edges == Edges(work.left, xline_values, work.right)
        y_edges == Edges(work.top, yline_values, work.bottom)
        nx == Len(x_edges) - 1
        ny == Len(y_edges) - 1
        xs2(i) == x_edges[i] + x_edges[i + 1]
        ys2(j) == y_edges[j] + y_edges[j + 1]
        x_percents(i) == Percent(x_edges[i + 1] - x_edges[i], width(work))
        y_percents(j) == Percent(y_edges[j + 1] - y_edges[j], height(work))
    IN  [n \in 1..(nx * ny) |->
            LET j == ((n - 1) \div nx) + 1
                i == ((n - 1) % nx) + 1
            IN  [number |-> n,
                 x2 |-> xs2(i),
                 y2 |-> ys2(ny + 1 - j),      \* zip(reversed(ys), y_percents)
                 x_percent |-> x_percents(i),
                 y_percent |-> y_percents(j)]]

\* The mapping with y0 left at the top edge instead of advancing with y_index
RectangleMapping_y0_at_top(work, xline_values, yline_values) ==
    LET x_edges == Edges(work.left, xline_values, work.right)
        y_edges == Edges(work.top, yline_values, work.bottom)
        nx == Len(x_edges) - 1
        ny == Len(y_edges) - 1
    IN  [grid \in 1..(nx * ny) |->
            LET x_index == ((grid - 1) \div ny) + 1
                y_index == ((grid - 1) % ny) + 1
            IN  Rectangle(x_edges[x_index], x_edges[x_index + 1],
                          y_edges[1], y_edges[y_index + 1])]

\* The grid number -> Rectangle mapping built by set_labels
RectangleMapping(work, xline_values, yline_values) ==
    LET x_edges == Edges(work.left, xline_values, work.right)
        y_edges == Edges(work.top, yline_values, work.bottom)
        nx == Len(x_edges) - 1
        ny == Len(y_edges) - 1
    IN  [grid \in 1..(nx * ny) |->
            LET x_index == ((grid - 1) \div ny) + 1
                y_index == ((grid - 1) % ny) + 1
            IN  Rectangle(x_edges[x_index], x_edges[x_index + 1],
                          y_edges[y_index], y_edges[y_index + 1])]

set_labels(mp) ==
    LET xline_values == Sorted(mp.xlines)
        yline_values == Sorted(mp.ylines)
    IN  [mp EXCEPT
            !.labels = Labels(mp.monitor.work, xline_values, yline_values),
            !.rectangle_mapping =
                RectangleMapping(mp.monitor.work, xline_values, yline_values)]

\* MonitorProfile.__init__ (init_ui, set_labels, set_rows(1))
NewMonitorProfile(monitor, active) ==
    LET mp0 == [monitor |-> monitor,
                xlines |-> << >>,
                ylines |-> << >>,
                labels |-> << >>,
                rectangle_mapping |-> << >>,
                input |-> <<1, 1>>,
                app_table |-> NewAppTable]
        mp1 == set_labels(mp0)
    IN  [mp1 EXCEPT !.app_table = set_rows(mp1.app_table, 1, active)]

\* line_callback rounding the dragged value up to the next pixel
line_callback_rounds_up(mp, axis, i, raw2) ==
    set_labels(IF axis = "x"
               THEN [mp EXCEPT !.xlines[i] = Trunc(raw2 + 1, 2)]
               ELSE [mp EXCEPT !.ylines[i] = Trunc(raw2 + 1, 2)])

\* line_callback resetting the application table as a count change does
line_callback_resets_table(mp, axis, i, raw2) ==
    LET mp1 == set_labels(IF axis = "x"
                          THEN [mp EXCEPT !.xlines[i] = Trunc(raw2, 2)]
                          ELSE [mp EXCEPT !.ylines[i] = Trunc(raw2, 2)])
    IN  [mp1 EXCEPT !.app_table =
            [NewAppTable EXCEPT !.nrows = mp.app_table.nrows,
                                !.tables = mp.app_table.tables]]

\* line_callback for the line at index i of the given axis; raw2 is twice the
\* value the drag left in the widget
line_callback(mp, axis, i, raw2) ==
    set_labels(IF axis = "x"
               THEN [mp EXCEPT !.xlines[i] = Trunc(raw2, 2)]
               ELSE [mp EXCEPT !.ylines[i] = Trunc(raw2, 2)])

\* input_callback taking the requested counts as they are
input_callback_unclamped(mp, value, active) ==
    LET work == mp.monitor.work
        rows == value[1]
        cols == value[2]
        ylines == [row \in 1..(rows - 1) |->
                      Trunc(work.top * rows + row * height(work), rows)]
        xlines == [col \in 1..(cols - 1) |->
                      Trunc(work.left * cols + col * width(work), cols)]
        mp1 == set_labels([mp EXCEPT !.input = <<rows, cols>>,
                                     !.xlines = xlines,
                                     !.ylines = ylines])
    IN  [mp1 EXCEPT !.app_table = set_rows(clear(mp1.app_table), rows * cols, active)]

\* input_callback after the grid input was set to value = <<rows, cols>>
input_callback(mp, value, active) ==
    LET work == mp.monitor.work
        rows == IF value[1] < 1 THEN 1 ELSE value[1]
        cols == IF value[2] < 1 THEN 1 ELSE value[2]
        ylines == [row \in 1..(rows - 1) |->
                      Trunc(work.top * rows + row * height(work), rows)]
        xlines == [col \in 1..(cols - 1) |->
                      Trunc(work.left * cols + col * width(work), cols)]
        mp1 == set_labels([mp EXCEPT !.input = <<rows, cols>>,
                                     !.xlines = xlines,
                                     !.ylines = ylines])
    IN  [mp1 EXCEPT !.app_table = set_rows(clear(mp1.app_table), rows * cols, active)]

\* The (rectangle, window name) pairs snap visits, in order: the cells of
\* the grid mapping in key order (keys are inserted ascending), skipping the
\* numbers without a rectangle, the windows of a cell in the order of rank
RECURSIVE SnapWindows(_, _, _)
SnapWindows(rect, names, rank) ==
    IF names = {} THEN << >>
    ELSE LET name == CHOOSE n \in names : \A m \in names : rank[n] <= rank[m]
         IN  <<[rect |-> rect, name |-> name]>> \o SnapWindows(rect, names \ {name}, rank)

RECURSIVE SnapItems(_, _, _)
SnapItems(mp, numbers, rank) ==
    IF numbers = {} THEN << >>
    ELSE LET number == CHOOSE n \in numbers : \A m \in numbers : n <= m
             rest == SnapItems(mp, numbers \ {number}, rank)
         IN  IF number \notin DOMAIN mp.rectangle_mapping
             THEN rest
             ELSE SnapWindows(mp.rectangle_mapping[number],
                              mp.app_table.grid_mapping[number], rank) \o rest

RECURSIVE MoveAll(_, _, _, _)
MoveAll(items, n, diff, fail) ==
    IF n = 0 THEN << >>
    ELSE MoveAll(items, n - 1, diff, fail) \o
         move_window(items[n].name, items[n].rect.left, items[n].rect.top,
                     width(items[n].rect), height(items[n].rect),
                     diff[items[n].name], fail[items[n].name])

\* The calls up to and including the first one the OS refused
RECURSIVE UpToRefusal(_)
UpToRefusal(calls) ==
    IF calls = << >> THEN << >>
    ELSE IF ~ Head(calls).ok THEN <<Head(calls)>>
    ELSE <<Head(calls)>> \o UpToRefusal(Tail(calls))

\* snap giving up at the first refused OS call
snap_stops_at_refusal(mp, active, rank, diff, fail) ==
    LET items == SnapItems(mp, DOMAIN mp.app_table.grid_mapping, rank)
    IN  [calls |-> UpToRefusal(MoveAll(items, Len(items), diff, fail)),
         raised |-> FALSE]

\* snap raising KeyError at the first number that has no rectangle
snap_raises_on_missing_rectangle(mp, active, rank, diff, fail) ==
    LET numbers == DOMAIN mp.app_table.grid_mapping
        outside == numbers \ DOMAIN mp.rectangle_mapping
        before == IF outside = {} THEN numbers
                  ELSE {n \in numbers : \A o \in outside : n < o}
        items == SnapItems(mp, before, rank)
    IN  [calls |-> MoveAll(items, Len(items), diff, fail), raised |-> outside # {}]

\* MonitorProfile.snap: the OS calls it issues, and whether the lookup
\* AppTable.ACTIVE_WINDOWS[name] raised KeyError (which ends the handler)
snap(mp, active, rank, diff, fail) ==
    LET items == SnapItems(mp, DOMAIN mp.app_table.grid_mapping, rank)
        missing == {i \in DOMAIN items : items[i].name \notin active}
        done == IF missing = {} THEN Len(items)
                ELSE (CHOOSE i \in missing : \A k \in missing : i <= k) - 1
    IN  [calls |-> MoveAll(items, done, diff, fail), raised |-> missing # {}]

\* to_dict writing the selections of the application table as well
to_dict_with_allocations(mp) ==
    [xlines |-> SortedFracs([i \in DOMAIN mp.xlines |->
                                Frac(mp.xlines[i], height(mp.monitor.work))]),
     ylines |-> SortedFracs([i \in DOMAIN mp.ylines |->
                                Frac(mp.ylines[i], width(mp.monitor.work))]),
     windows |-> mp.app_table.grid_mapping]

\* MonitorProfile.to_dict
to_dict(mp) ==
    [xlines |-> SortedFracs([i \in DOMAIN mp.xlines |->
                                Frac(mp.xlines[i], height(mp.monitor.work))]),
     ylines |-> SortedFracs([i \in DOMAIN mp.ylines |->
                                Frac(mp.ylines[i], width(mp.monitor.work))])]

\* MonitorProfile.load_dict
load_dict(mp, serialized_monitor_profile, active) ==
    LET work == mp.monitor.work
        sy == serialized_monitor_profile.ylines
        sx == serialized_monitor_profile.xlines
        ylines == [row \in DOMAIN sy |-> Trunc(sy[row].num * height(work), sy[row].den)]
        xlines == [col \in DOMAIN sx |-> Trunc(sx[col].num * width(work), sx[col].den)]
        mp1 == set_labels([mp EXCEPT !.xlines = xlines, !.ylines = ylines])
        rows == Len(xlines) + 1
        cols == Len(ylines) + 1
    IN  [mp1 EXCEPT !.input = <<rows, cols>>,
                    !.app_table = set_rows(mp1.app_table, rows * cols, active)]

----------------------------------------------------------------------------
(* Handlers of one monitor profile, as actions.  t is the tab of the        *)
(* profile and m the monitor id of the monitor profile.                    *)

Op(name, t, m) == [name |-> name, tab |-> t, mon |-> m, raised |-> FALSE, args |-> << >>]

MP(t, m) == profiles[t][m]

\* All rankings of the given window names (the orders list(set) may give)
Ranks(names) ==
    {r \in [names -> 1..Cardinality(names)] : \A a, b \in names : a # b => r[a] # r[b]}

\* Values a drag can leave in a line between lo and hi (doubled): near either
\* end, and the middle
DragSet(lo, hi) ==
    {r \in (2 * lo)..(2 * hi) :
        r - 2 * lo <= DragSpan \/ 2 * hi - r <= DragSpan \/ r = lo + hi}

\* AppTable.selected for the table of row `number`, the user having left
\* `items` of the listed names selected
Selected(t, m, number, items) ==
    /\ op.name # "start"
    /\ number \in DOMAIN MP(t, m).app_table.tables
    /\ items \subseteq MP(t, m).app_table.tables[number]
    /\ profiles' = [profiles EXCEPT ![t][m].app_table =
                        selected(@, number, items, ACTIVE_WINDOWS)]
    /\ oscalls' = << >>
    /\ op' = Op("selected", t, m)
    /\ UNCHANGED <<ACTIVE_WINDOWS, monitors, tab_number, saved_profiles, disk>>

\* MainWindow.refresh_windows when get_windows() returns the names in new.
\* The registries are compared as dicts of window objects: with the same
\* names they still differ when a window was replaced by another one.
RefreshWindows(new) ==
    /\ op.name # "start"
    /\ new # ACTIVE_WINDOWS \/ new # {}
    /\ ACTIVE_WINDOWS' = new
    /\ profiles' = [t \in DOMAIN profiles |-> [m \in DOMAIN profiles[t] |->
                       [profiles[t][m] EXCEPT !.app_table =
                           refresh_available_windows(@, new)]]]
    /\ oscalls' = << >>
    /\ op' = Op("refresh_windows", 0, "")
    /\ UNCHANGED <<monitors, tab_number, saved_profiles, disk>>

InputCallback(t, m, value) ==
    /\ op.name # "start"
    /\ profiles' = [profiles EXCEPT ![t][m] = input_callback(@, value, ACTIVE_WINDOWS)]
    /\ oscalls' = << >>
    /\ op' = [Op("input_callback", t, m) EXCEPT !.args = [value |-> value]]
    /\ UNCHANGED <<ACTIVE_WINDOWS, monitors, tab_number, saved_profiles, disk>>

LineCallbackAs(t, m, axis, i, raw2, args) ==
    /\ op.name # "start"
    /\ i \in DOMAIN (IF axis = "x" THEN MP(t, m).xlines ELSE MP(t, m).ylines)
    /\ profiles' = [profiles EXCEPT ![t][m] = line_callback(@, axis, i, raw2)]
    /\ oscalls' = << >>
    /\ op' = [Op("line_callback", t, m) EXCEPT !.args = args]
    /\ UNCHANGED <<ACTIVE_WINDOWS, monitors, tab_number, saved_profiles, disk>>

LineCallback(t, m, axis, i, raw2) == LineCallbackAs(t, m, axis, i, raw2, << >>)

\* The windows snap would move
Mapped(mp) == UnionOf(mp.app_table.grid_mapping)

\* The invisible borders of each window, as the OS reports them during a snap
BorderOf == [w \in Windows |-> IF w % 2 = 1 THEN <<-2, 2, 0, 4>> ELSE <<0, 0, 0, 0>>]

\* The OS refuses calls for at most one window during one snap
FailChoices(names) ==
    {f \in [names -> FailSet] : \A a, b \in names : f[a] # "none" /\ f[b] # "none" => a = b}

\* MonitorProfile.snap, the OS refusing calls as one of `fails` says
SnapAs(t, m, fails) ==
    /\ op.name # "start"
    /\ \E rank \in Ranks(Mapped(MP(t, m))), fail \in fails :
          LET res == snap(MP(t, m), ACTIVE_WINDOWS, rank, BorderOf, fail)
          IN  /\ oscalls' = res.calls
              /\ op' = [Op("snap", t, m) EXCEPT !.raised = res.raised]
    /\ UNCHANGED <<ACTIVE_WINDOWS, monitors, profiles, tab_number, saved_profiles, disk>>

Snap(t, m) == SnapAs(t, m, FailChoices(Mapped(MP(t, m))))

\* The OS refuses no call during a snap
NoRefusal(names) == {[n \in names |-> "none"]}

----------------------------------------------------------------------------
(* Spec: one monitor profile and its application table *)

\* The document when profiles.json does not exist
EmptyStore == [monitor_sets |-> << >>, profiles |-> << >>]

SmallWork == Rectangle(-6, -2, 1, 4)

\* Profile.__init__: one MonitorProfile per monitor
NewProfile(mons, active) ==
    [m \in {mons[i].id : i \in DOMAIN mons} |->
        NewMonitorProfile(CHOOSE mon \in Range(mons) : mon.id = m, active)]

InitOneProfile(works) ==
    /\ ACTIVE_WINDOWS \in SUBSET Windows
    /\ \E w \in works : monitors = <<Monitor("m1", w)>>
    /\ profiles = [t \in {1} |-> NewProfile(monitors, ACTIVE_WINDOWS)]
    /\ tab_number = 2
    /\ saved_profiles = EmptyStore
    /\ disk = EmptyStore
    /\ oscalls = << >>
    /\ op = Op("init", 0, "")

Cells(t, m) == DOMAIN MP(t, m).app_table.tables

TableNext ==
    \/ \E n \in Cells(1, "m1"), items \in SUBSET Windows : Selected(1, "m1", n, items)
    \/ \E new \in SUBSET Windows : RefreshWindows(new)
    \/ \E rows \in 0..MaxCells, cols \in 0..MaxCells :
          /\ rows * cols <= MaxCells
          /\ InputCallback(1, "m1", <<rows, cols>>)

Init == InitOneProfile({SmallWork})

Next == TableNext

Spec == Init /\ [][Next]_vars

----------------------------------------------------------------------------
(* SpecSnap: the same profile with its Snap button *)

SnapNext ==
    \/ TableNext
    \/ Snap(1, "m1")

SpecSnap == Init /\ [][SnapNext]_vars

----------------------------------------------------------------------------
(* SpecFixed: an application table whose number of cells stays as the one   *)
(* grid change after construction left it                                  *)

InitFixed ==
    /\ ACTIVE_WINDOWS \in SUBSET Windows
    /\ monitors = <<Monitor("m1", SmallWork)>>
    /\ \E rows \in 1..MaxCells, cols \in 1..MaxCells :
          /\ rows * cols <= MaxCells
          /\ profiles = [t \in {1} |-> [m \in {"m1"} |->
                 input_callback(NewMonitorProfile(monitors[1], ACTIVE_WINDOWS),
                                <<rows, cols>>, ACTIVE_WINDOWS)]]
          /\ op = [Op("input_callback", 1, "m1") EXCEPT
                      !.args = [value |-> <<rows, cols>>]]
    /\ tab_number = 2
    /\ saved_profiles = EmptyStore
    /\ disk = EmptyStore
    /\ oscalls = << >>

FixedNext ==
    \/ \E n \in Cells(1, "m1"), items \in SUBSET Windows : Selected(1, "m1", n, items)
    \/ \E new \in SUBSET Windows : RefreshWindows(new)

SpecFixed == InitFixed /\ [][FixedNext]_vars

----------------------------------------------------------------------------
(* SpecGrid: the grid of one monitor profile under count changes and drags  *)

WorkSet == {Rectangle(0, 1920, 0, 1080), SmallWork, Rectangle(2, 6, 0, 4)}

InitGrid == InitOneProfile(WorkSet)

GridNext ==
    \/ \E rows \in 0..GridDim, cols \in 0..GridDim : InputCallback(1, "m1", <<rows, cols>>)
    \/ \E i \in 1..GridDim,
          raw2 \in DragSet(monitors[1].work.left, monitors[1].work.right) :
          LineCallback(1, "m1", "x", i, raw2)
    \/ \E i \in 1..GridDim,
          raw2 \in DragSet(monitors[1].work.top, monitors[1].work.bottom) :
          LineCallback(1, "m1", "y", i, raw2)

SpecGrid == InitGrid /\ [][GridNext]_vars

----------------------------------------------------------------------------
(* Profile and MainWindow: tabs, the saved document, save and load *)

Ids == 1..NumIds

MonitorIdsOf(mons) == {mons[i].id : i \in DOMAIN mons}

\* Profile.to_dict
profile_to_dict(profile) == [m \in DOMAIN profile |-> to_dict(profile[m])]

\* Profile.load_dict; a monitor id that the profile does not have raises
\* KeyError (reported by ProfileLoadRaises), the others are loaded
profile_load_dict(profile, serialized_profile, active) ==
    [m \in DOMAIN profile |->
        IF m \in DOMAIN serialized_profile
        THEN load_dict(profile[m], serialized_profile[m], active)
        ELSE profile[m]]

ProfileLoadRaises(profile, serialized_profile) ==
    ~ (DOMAIN serialized_profile \subseteq DOMAIN profile)

\* the comparison done on lists: monitor_ids == [monitor.id for monitor in monitors]
same_monitor_list(monitor_ids, mons) == monitor_ids = [i \in DOMAIN mons |-> mons[i].id]

\* the comparison done as set(monitor_ids) <= current_monitor_ids
subset_monitor_set(monitor_ids, mons) == Range(monitor_ids) \subseteq MonitorIdsOf(mons)

\* set(monitor_ids) == current_monitor_ids
same_monitor_set(monitor_ids, mons) == Range(monitor_ids) = MonitorIdsOf(mons)

\* The entries of monitor_sets (in dict order) that match the monitors
Matching(saved, mons) ==
    {i \in DOMAIN saved.monitor_sets :
        same_monitor_set(saved.monitor_sets[i].monitor_ids, mons)}

\* MainWindow.get_or_create_monitor_set_id: the identity and the document
\* after the call.  new_id is what uuid4 returns and listing the order
\* list(current_monitor_ids) gives, both used only when no entry matches.
get_or_create_monitor_set_id(saved, mons, new_id, listing) ==
    IF Matching(saved, mons) # {}
    THEN [id |-> saved.monitor_sets[CHOOSE i \in Matching(saved, mons) :
                                        \A j \in Matching(saved, mons) : i <= j].id,
          saved |-> saved]
    ELSE [id |-> new_id,
          saved |-> [saved EXCEPT !.monitor_sets =
                        Append(@, [id |-> new_id, monitor_ids |-> listing])]]

\* What uuid4 can return: an identifier not in use in the document
FreshIds(saved) ==
    Ids \ ({saved.monitor_sets[i].id : i \in DOMAIN saved.monitor_sets}
              \cup DOMAIN saved.profiles)

\* The orders in which the ids of the monitors can be listed
Listings(mons) ==
    {l \in [1..Cardinality(MonitorIdsOf(mons)) -> MonitorIdsOf(mons)] :
        Range(l) = MonitorIdsOf(mons)}

\* dict assignment d[k] = v
Put(d, k, v) == [x \in (DOMAIN d) \cup {k} |-> IF x = k THEN v ELSE d[x]]

\* The profiles in dict order (tabs are inserted with ascending labels)
RECURSIVE ProfileList(_, _)
ProfileList(profs, labels) ==
    IF labels = {} THEN << >>
    ELSE LET l == CHOOSE x \in labels : \A y \in labels : x <= y
         IN  <<profs[l]>> \o ProfileList(profs, labels \ {l})

IdArgs(name, id) == [Op(name, 0, "") EXCEPT !.args = [id |-> id]]

\* save keeping only the list of the current monitor set
save_drops_other_identities(saved, monitor_set_id, serialized_profiles) ==
    [saved EXCEPT !.profiles = [x \in {monitor_set_id} |-> serialized_profiles]]

\* MainWindow.save from the assignment on: the document that is kept in
\* memory and written to the file as a whole
save(saved, monitor_set_id, serialized_profiles) ==
    [saved EXCEPT !.profiles = Put(@, monitor_set_id, serialized_profiles)]

\* [profile.to_dict() for profile in self._profiles.values()]
SerializedProfiles(profs) ==
    [i \in 1..Cardinality(DOMAIN profs) |->
        profile_to_dict(ProfileList(profs, DOMAIN profs)[i])]

\* MainWindow.save
Save ==
    /\ op.name # "start"
    /\ \E new_id \in FreshIds(saved_profiles) \cup {0}, listing \in Listings(monitors) :
          LET r == get_or_create_monitor_set_id(saved_profiles, monitors, new_id, listing)
              doc == save(r.saved, r.id, SerializedProfiles(profiles))
          IN  /\ r.id # 0
              /\ saved_profiles' = doc
              /\ disk' = doc
              /\ op' = [Op("save", 0, "") EXCEPT
                           !.args = [id |-> r.id,
                                     previous |->
                                         IF r.id \in DOMAIN saved_profiles.profiles
                                         THEN saved_profiles.profiles[r.id]
                                         ELSE << >>]]
    /\ oscalls' = << >>
    /\ UNCHANGED <<ACTIVE_WINDOWS, monitors, profiles, tab_number>>

\* The windows selected in any cell of any monitor profile
SelectedAnywhere(profs) ==
    UNION {UNION {Mapped(profs[t][m]) : m \in DOMAIN profs[t]} : t \in DOMAIN profs}

\* load starting over with one new profile when nothing is saved
load_starts_over(profs, tabn, serialized_profiles, mons, active) ==
    LET n == IF Len(serialized_profiles) = 0 THEN 1 ELSE Len(serialized_profiles)
    IN  [profiles |-> [t \in 1..n |->
                          IF t \in DOMAIN serialized_profiles
                          THEN profile_load_dict(NewProfile(mons, active),
                                                 serialized_profiles[t], active)
                          ELSE NewProfile(mons, active)],
         tab_number |-> n + 1,
         raised |-> FALSE]

\* MainWindow.load from the lookup of the saved profiles on: the tabs and the
\* tab counter it leaves, and whether Profile.load_dict raised KeyError
\* (which ends the handler with the tabs made so far)
load(profs, tabn, serialized_profiles, mons, active) ==
    LET n == Len(serialized_profiles)
        raising == {i \in 1..n :
                       ProfileLoadRaises(NewProfile(mons, active), serialized_profiles[i])}
        done == IF raising = {} THEN n
                ELSE CHOOSE i \in raising : \A j \in raising : i <= j
    IN  IF n = 0
        THEN [profiles |-> profs, tab_number |-> tabn, raised |-> FALSE]
        ELSE [profiles |-> [t \in 1..done |->
                               profile_load_dict(NewProfile(mons, active),
                                                 serialized_profiles[t], active)],
              tab_number |-> done + 1,
              raised |-> raising # {}]

\* MainWindow.load (also the startup callback)
Load ==
    /\ \E new_id \in FreshIds(saved_profiles) \cup {0}, listing \in Listings(monitors) :
          LET r == get_or_create_monitor_set_id(saved_profiles, monitors, new_id, listing)
              serialized_profiles ==
                  IF r.id \in DOMAIN r.saved.profiles THEN r.saved.profiles[r.id] ELSE << >>
              res == load(profiles, tab_number, serialized_profiles, monitors,
                          ACTIVE_WINDOWS)
          IN  /\ r.id # 0
              /\ saved_profiles' = r.saved
              /\ profiles' = res.profiles
              /\ tab_number' = res.tab_number
              /\ op' = [Op("load", 0, "") EXCEPT
                           !.raised = res.raised,
                           !.args = [id |-> r.id,
                                     found |-> Len(serialized_profiles),
                                     selected_before |-> SelectedAnywhere(profiles)]]
    /\ oscalls' = << >>
    /\ UNCHANGED <<ACTIVE_WINDOWS, monitors, disk>>

\* MainWindow.add_tab
AddTab ==
    /\ op.name # "start"
    /\ Cardinality(DOMAIN profiles) < MaxTabs
    /\ profiles' = Put(profiles, tab_number, NewProfile(monitors, ACTIVE_WINDOWS))
    /\ tab_number' = tab_number + 1
    /\ oscalls' = << >>
    /\ op' = Op("add_tab", 0, "")
    /\ UNCHANGED <<ACTIVE_WINDOWS, monitors, saved_profiles, disk>>

\* The monitors the OS can report, each with its work area.  The work areas
\* are square: on any other, a divider moves further at every save and load
\* (see C5) and the reachable states do not end.
MonitorOf(id) ==
    IF id = "m1" THEN Monitor("m1", Rectangle(0, 4, 0, 4))
    ELSE Monitor("m2", Rectangle(-6, -2, 1, 5))

\* The enumerations get_monitors() can return: m1 is always attached, the
\* other monitors come and go, in any order
Enumerations ==
    {[i \in DOMAIN l |-> MonitorOf(l[i])] :
        l \in {k \in UNION {[1..n -> MonitorIds] : n \in 1..Cardinality(MonitorIds)} :
                  /\ "m1" \in Range(k)
                  /\ \A i, j \in DOMAIN k : i # j => k[i] # k[j]}}

\* MainWindow.__init__ in a new process, with the monitors enumerated as mons
Start(mons) ==
    /\ monitors' = mons
    /\ saved_profiles' = disk
    /\ profiles' = [t \in {1} |-> NewProfile(mons, ACTIVE_WINDOWS)]
    /\ tab_number' = 2
    /\ oscalls' = << >>
    /\ op' = Op("start", 0, "")
    /\ UNCHANGED <<ACTIVE_WINDOWS, disk>>

----------------------------------------------------------------------------
(* SpecStore: sessions over changing monitor sets, with save and load *)

InitStore ==
    /\ ACTIVE_WINDOWS = Windows
    /\ monitors \in Enumerations
    /\ profiles = [t \in {1} |-> NewProfile(monitors, ACTIVE_WINDOWS)]
    /\ tab_number = 2
    /\ saved_profiles = EmptyStore
    /\ disk = EmptyStore
    /\ oscalls = << >>
    /\ op = Op("start", 0, "")

StoreNext ==
    \/ Save
    \/ Load
    \/ \E t \in DOMAIN profiles, m \in MonitorIds, cols \in 1..2 :
          /\ m \in DOMAIN profiles[t]
          /\ InputCallback(t, m, <<1, cols>>)
    \/ \E mons \in Enumerations : Start(mons)

SpecStore == InitStore /\ [][StoreNext]_vars

----------------------------------------------------------------------------
(* SpecLoad: one session on one monitor with save, load and added tabs;   *)
(* the grid and the cells of the first tab are worked on                  *)

InitLoad ==
    /\ ACTIVE_WINDOWS = Windows
    /\ monitors = <<MonitorOf("m1")>>
    /\ profiles = [t \in {1} |-> NewProfile(monitors, ACTIVE_WINDOWS)]
    /\ tab_number = 2
    /\ saved_profiles = EmptyStore
    /\ disk = EmptyStore
    /\ oscalls = << >>
    /\ op = Op("start", 0, "")

LoadNext ==
    \/ Save
    \/ Load
    \/ AddTab
    \/ \E cols \in 1..2 : InputCallback(1, "m1", <<1, cols>>)
    \/ \E n \in 1..2, items \in SUBSET Windows : Selected(1, "m1", n, items)

SpecLoad == InitLoad /\ [][LoadNext]_vars

----------------------------------------------------------------------------
(* SpecSession: one session on one monitor where tabs are added, closed,  *)
(* and loaded, windows open and close, and every tab's grid, cells        *)
(* and Snap button are used                                               *)

\* MainWindow.remove_tab after the user closed tab t: the profile of the tab
\* that is no longer shown is dropped.  Which tabs show a close button is
\* the tab bar's state; any tab is taken as one the user can close.
RemoveTab(t) ==
    /\ op.name # "start"
    /\ t \in DOMAIN profiles
    /\ profiles' = [label \in (DOMAIN profiles) \ {t} |-> profiles[label]]
    /\ oscalls' = << >>
    /\ op' = Op("remove_tab", t, "")
    /\ UNCHANGED <<ACTIVE_WINDOWS, monitors, tab_number, saved_profiles, disk>>

\* The document a session on monitor m1 left on disk when it saved one
\* profile with a grid of one row and two columns
SavedEarlier ==
    LET mons == <<MonitorOf("m1")>>
        r == get_or_create_monitor_set_id(EmptyStore, mons, 1,
                                          CHOOSE l \in Listings(mons) : TRUE)
        mp == input_callback(NewMonitorProfile(MonitorOf("m1"), {}), <<1, 2>>, {})
    IN  save(r.saved, r.id, SerializedProfiles([t \in {1} |-> [m1 |-> mp]]))

InitSession ==
    /\ ACTIVE_WINDOWS = Windows
    /\ monitors = <<MonitorOf("m1")>>
    /\ profiles = [t \in {1} |-> NewProfile(monitors, ACTIVE_WINDOWS)]
    /\ tab_number = 2
    /\ saved_profiles = SavedEarlier
    /\ disk = SavedEarlier
    /\ oscalls = << >>
    /\ op = Op("start", 0, "")

\* Tabs are added while the tab counter is at most MaxTabs
SessionNext ==
    \/ Load
    \/ tab_number <= MaxTabs /\ AddTab
    \/ \E t \in DOMAIN profiles : RemoveTab(t)
    \/ \E t \in DOMAIN profiles, cols \in 1..MaxCells : InputCallback(t, "m1", <<1, cols>>)
    \/ \E t \in DOMAIN profiles, n \in 1..MaxCells, items \in SUBSET Windows :
          Selected(t, "m1", n, items)
    \/ \E new \in SUBSET Windows : RefreshWindows(new)
    \/ \E t \in DOMAIN profiles : SnapAs(t, "m1", NoRefusal(Mapped(MP(t, "m1"))))

SpecSession == InitSession /\ [][SessionNext]_vars

----------------------------------------------------------------------------
(* SpecMove: move_window on its own *)

MoveDiffs == BorderDiffs \cup {<<1, -3, 5, 7>>}

MoveWindow(handle, x, y, width_, height_, diff, fail) ==
    /\ oscalls' = move_window(handle, x, y, width_, height_, diff, fail)
    /\ op' = [Op("move_window", 0, "") EXCEPT
                 !.args = [handle |-> handle, x |-> x, y |-> y, width |-> width_,
                           height |-> height_, diff |-> diff, fail |-> fail]]
    /\ UNCHANGED <<ACTIVE_WINDOWS, monitors, profiles, tab_number, saved_profiles, disk>>

MoveNext ==
    \E handle \in Windows, x \in {100, -6}, y \in {100, 1}, width_ \in {200, 4},
       height_ \in {200, 3}, diff \in MoveDiffs, fail \in FailSet :
        MoveWindow(handle, x, y, width_, height_, diff, fail)

SpecMove == Init /\ [][MoveNext]_vars

----------------------------------------------------------------------------
(* SpecRect: the Rectangle constructor on its own *)

Coords == (-CoordSpan)..CoordSpan

NewRectangle(left, right, top, bottom) ==
    /\ op' = [Op("Rectangle", 0, "") EXCEPT
                 !.args = [left |-> left, right |-> right, top |-> top,
                           bottom |-> bottom,
                           rect |-> Rectangle(left, right, top, bottom)]]
    /\ UNCHANGED <<ACTIVE_WINDOWS, monitors, profiles, tab_number, saved_profiles,
                   disk, oscalls>>

RectNext ==
    \E left \in Coords, right \in Coords, top \in Coords, bottom \in Coords :
        NewRectangle(left, right, top, bottom)

InitRect == Init /\ ACTIVE_WINDOWS = {}

SpecRect == InitRect /\ [][RectNext]_vars

----------------------------------------------------------------------------
(* SpecBands: the grid of one small monitor with up to BandDim bands       *)

BandsNext ==
    \/ \E rows \in 0..BandDim, cols \in 0..BandDim : InputCallback(1, "m1", <<rows, cols>>)
    \/ \E i \in 1..BandDim,
          raw2 \in DragSet(monitors[1].work.left, monitors[1].work.right) :
          LineCallback(1, "m1", "x", i, raw2)
    \/ \E i \in 1..BandDim,
          raw2 \in DragSet(monitors[1].work.top, monitors[1].work.bottom) :
          LineCallback(1, "m1", "y", i, raw2)

InitBands == Init /\ ACTIVE_WINDOWS = {}

SpecBands == InitBands /\ [][BandsNext]_vars

----------------------------------------------------------------------------
(* SpecDrag: the application table and the dividers of one monitor profile *)

DragNext ==
    \/ TableNext
    \/ \E i \in 1..MaxCells,
          raw2 \in DragSet(monitors[1].work.left, monitors[1].work.right) :
          LineCallback(1, "m1", "x", i, raw2)
    \/ \E i \in 1..MaxCells,
          raw2 \in DragSet(monitors[1].work.top, monitors[1].work.bottom) :
          LineCallback(1, "m1", "y", i, raw2)

SpecDrag == Init /\ [][DragNext]_vars

----------------------------------------------------------------------------
(* SpecPixels: count changes and drags, the value left by each drag kept    *)
(* with the handler that ran last                                          *)

DragArgs(axis, i, raw2) == [axis |-> axis, i |-> i, raw2 |-> raw2]

PixelsNext ==
    \/ \E rows \in 0..GridDim, cols \in 0..GridDim : InputCallback(1, "m1", <<rows, cols>>)
    \/ \E i \in 1..GridDim,
          raw2 \in DragSet(monitors[1].work.left, monitors[1].work.right) :
          LineCallbackAs(1, "m1", "x", i, raw2, DragArgs("x", i, raw2))
    \/ \E i \in 1..GridDim,
          raw2 \in DragSet(monitors[1].work.top, monitors[1].work.bottom) :
          LineCallbackAs(1, "m1", "y", i, raw2, DragArgs("y", i, raw2))

InitPixels == InitGrid /\ ACTIVE_WINDOWS = {}

SpecPixels == InitPixels /\ [][PixelsNext]_vars

----------------------------------------------------------------------------
(* Properties *)

TheMP == MP(1, "m1")

TheTable == TheMP.app_table

\* C1 (SpecFixed): with a fixed number of cells, after any sequence of
\* selections (each among the names its table lists) and live-window
\* refreshes, no window name is in the selections of two different cells.
C1_NoWindowInTwoCells ==
    \A a, b \in DOMAIN TheTable.grid_mapping :
        a # b => TheTable.grid_mapping[a] \cap TheTable.grid_mapping[b] = {}

\* C1 witness: two cells hold selections right after a selection
C1_Witness ==
    /\ op.name = "selected"
    /\ TheTable.nrows >= 2
    /\ TheTable.grid_mapping[1] # {}
    /\ TheTable.grid_mapping[2] # {}

Cleared(t) ==
    /\ t.allocated_windows = {}
    /\ \A k \in DOMAIN t.grid_mapping : t.grid_mapping[k] = {}

\* C2 (SpecSnap): after input_callback every cell's selection and the set of
\* allocated windows are empty, and a snap issued right after it moves no
\* window.
C2_CountChangeClears ==
    [][/\ (op'.name = "input_callback" /\ TheMP.input' # TheMP.input)
            => Cleared(TheTable)'
       /\ (op.name = "input_callback" /\ op'.name = "snap") => oscalls' = << >>]_vars

\* The dividers of a profile, sorted, with the work edges around them
XEdges(mp) == Edges(mp.monitor.work.left, Sorted(mp.xlines), mp.monitor.work.right)

YEdges(mp) == Edges(mp.monitor.work.top, Sorted(mp.ylines), mp.monitor.work.bottom)

\* C3 (SpecGrid): the rectangle snap uses for index k is the cell in row
\* (k-1) div cols and column (k-1) mod cols, rows counted from the top and
\* columns from the left; for the 1920x1080 work area split at 960 and 540
\* the cells 1..4 are top-left, top-right, bottom-left, bottom-right.
C3_RowMajorFromTopLeft ==
    LET mp == TheMP
        cols == Len(mp.xlines) + 1
        rows == Len(mp.ylines) + 1
    IN  /\ DOMAIN mp.rectangle_mapping = 1..(rows * cols)
        /\ \A k \in 1..(rows * cols) :
              LET r == (k - 1) \div cols
                  c == (k - 1) % cols
              IN  mp.rectangle_mapping[k] =
                      [left |-> XEdges(mp)[c + 1], right |-> XEdges(mp)[c + 2],
                       top |-> YEdges(mp)[r + 1], bottom |-> YEdges(mp)[r + 2]]
        /\ (/\ mp.monitor.work = [left |-> 0, right |-> 1920, top |-> 0, bottom |-> 1080]
            /\ mp.xlines = <<960>>
            /\ mp.ylines = <<540>>)
           => mp.rectangle_mapping =
                  <<[left |-> 0, right |-> 960, top |-> 0, bottom |-> 540],
                    [left |-> 960, right |-> 1920, top |-> 0, bottom |-> 540],
                    [left |-> 0, right |-> 960, top |-> 540, bottom |-> 1080],
                    [left |-> 960, right |-> 1920, top |-> 540, bottom |-> 1080]>>

\* Dividers sorted-distinct and strictly inside the work area
ValidGrid(mp) ==
    /\ \A i \in DOMAIN mp.xlines :
          /\ mp.monitor.work.left < mp.xlines[i]
          /\ mp.xlines[i] < mp.monitor.work.right
    /\ \A i \in DOMAIN mp.ylines :
          /\ mp.monitor.work.top < mp.ylines[i]
          /\ mp.ylines[i] < mp.monitor.work.bottom
    /\ \A i, j \in DOMAIN mp.xlines : i # j => mp.xlines[i] # mp.xlines[j]
    /\ \A i, j \in DOMAIN mp.ylines : i # j => mp.ylines[i] # mp.ylines[j]

RECURSIVE AreaSum(_, _)
AreaSum(rects, n) ==
    IF n = 0 THEN 0 ELSE AreaSum(rects, n - 1) + width(rects[n]) * height(rects[n])

\* Neighbouring values of a set of coordinates
Consecutive(S) == {p \in S \X S : p[1] < p[2] /\ ~ \E c \in S : p[1] < c /\ c < p[2]}

\* The cells that contain the box xi x yi
Holding(rects, xi, yi) ==
    {k \in DOMAIN rects :
        /\ rects[k].left <= xi[1] /\ xi[2] <= rects[k].right
        /\ rects[k].top <= yi[1] /\ yi[2] <= rects[k].bottom}

\* C4 (SpecGrid): for a valid grid with R row dividers and C column dividers
\* set_labels maps exactly the indices 1..(R+1)*(C+1) to rectangles whose
\* areas sum to the work area, which cover the work rectangle and of which
\* no two overlap in area.  Cover and overlap are decided on the boxes cut
\* out by all the coordinates that occur: each lies in exactly one cell.
C4_CellsPartitionWork ==
    LET mp == TheMP
        work == mp.monitor.work
        rects == mp.rectangle_mapping
        XS == {work.left, work.right} \cup {rects[k].left : k \in DOMAIN rects}
                  \cup {rects[k].right : k \in DOMAIN rects}
        YS == {work.top, work.bottom} \cup {rects[k].top : k \in DOMAIN rects}
                  \cup {rects[k].bottom : k \in DOMAIN rects}
    IN  ValidGrid(mp) =>
            /\ DOMAIN rects = 1..((Len(mp.ylines) + 1) * (Len(mp.xlines) + 1))
            /\ AreaSum(rects, Len(rects)) = width(work) * height(work)
            /\ \A k \in DOMAIN rects :
                  /\ work.left <= rects[k].left /\ rects[k].right <= work.right
                  /\ work.top <= rects[k].top /\ rects[k].bottom <= work.bottom
            /\ \A xi \in Consecutive(XS), yi \in Consecutive(YS) :
                  Cardinality(Holding(rects, xi, yi)) = 1

\* C4 witness: a valid grid with dividers on both axes, one of them dragged
C4_Witness ==
    /\ op.name = "line_callback"
    /\ ValidGrid(TheMP)
    /\ Len(TheMP.xlines) >= 1
    /\ Len(TheMP.ylines) >= 1
    /\ TheMP.xlines # input_callback(TheMP, TheMP.input, {}).xlines

\* C5 (SpecGrid): to_dict followed by load_dict into a profile for the same
\* monitor reproduces the divider positions, and a second to_dict yields the
\* same xlines and ylines.
C5_RoundTrip ==
    LET mp == TheMP
        d == to_dict(mp)
        loaded == load_dict(NewMonitorProfile(mp.monitor, ACTIVE_WINDOWS), d, ACTIVE_WINDOWS)
    IN  /\ Sorted(loaded.xlines) = Sorted(mp.xlines)
        /\ Sorted(loaded.ylines) = Sorted(mp.ylines)
        /\ to_dict(loaded) = d

IsRestore(c) == c.fn = "ShowWindow" /\ "SW_RESTORE" \in c.flags

IsMove(c) == c.fn = "SetWindowPos" /\ "SWP_NOSIZE" \in c.flags /\ "SWP_NOMOVE" \notin c.flags

IsResize(c) == c.fn = "SetWindowPos" /\ "SWP_NOMOVE" \in c.flags /\ "SWP_NOSIZE" \notin c.flags

\* C8 (SpecMove): move_window with border offsets (left, right, top, bottom)
\* and target (x, y), width x height issues one position-only call to
\* (x - left, y - top) and one size-only call to (width + left + right,
\* height + top + bottom); offsets (2,2,0,4) and target (100,100) 200x200
\* give position (98,100) and size (204,204).
C8_MoveArithmetic ==
    op.name = "move_window" =>
        LET a == op.args
            b == get_window_borders(a.diff)
            moves == SelectSeq(oscalls, IsMove)
            sizes == SelectSeq(oscalls, IsResize)
        IN  /\ Len(moves) = 1
            /\ Len(sizes) = 1
            /\ moves[1].x = a.x - b[1]
            /\ moves[1].y = a.y - b[3]
            /\ sizes[1].cx = a.width + b[1] + b[2]
            /\ sizes[1].cy = a.height + b[3] + b[4]
            /\ (b = <<2, 2, 0, 4>> /\ a.x = 100 /\ a.y = 100
                   /\ a.width = 200 /\ a.height = 200)
               => /\ <<moves[1].x, moves[1].y>> = <<98, 100>>
                  /\ <<sizes[1].cx, sizes[1].cy>> = <<204, 204>>

\* C8 witness: the call with offsets (2,2,0,4) and target (100,100) 200x200
C8_Witness ==
    /\ op.name = "move_window"
    /\ get_window_borders(op.args.diff) = <<2, 2, 0, 4>>
    /\ op.args.x = 100 /\ op.args.y = 100
    /\ op.args.width = 200 /\ op.args.height = 200

AssignedCells(mp, w) ==
    {k \in (DOMAIN mp.app_table.grid_mapping) \cap (DOMAIN mp.rectangle_mapping) :
        w \in mp.app_table.grid_mapping[k]}

CallsFor(w, Test(_)) ==
    Len(SelectSeq(oscalls, LAMBDA c : c.hwnd = w /\ Test(c)))

\* C10 (SpecSnap): in one snap every window is restored, moved and resized
\* once per in-range cell it is assigned to, whether or not an OS call was
\* refused for it or for another window: no window is skipped and none is
\* retried.
C10_SnapBestEffort ==
    op.name = "snap" =>
        \A w \in Windows :
            /\ CallsFor(w, IsRestore) = Cardinality(AssignedCells(TheMP, w))
            /\ CallsFor(w, IsMove) = Cardinality(AssignedCells(TheMP, w))
            /\ CallsFor(w, IsResize) = Cardinality(AssignedCells(TheMP, w))

\* C10 witness: a call is refused for one window and another window's calls
\* follow it
C10_Witness ==
    /\ op.name = "snap"
    /\ \E i, j \in DOMAIN oscalls :
          /\ i < j
          /\ ~ oscalls[i].ok
          /\ oscalls[j].hwnd # oscalls[i].hwnd
          /\ IsResize(oscalls[j])

\* The identity get_or_create_monitor_set_id finds for the monitors, 0 if none
Resolve(doc, mons) ==
    IF Matching(doc, mons) = {} THEN 0
    ELSE get_or_create_monitor_set_id(doc, mons, 0, << >>).id

\* No two identities of the document stand for the same set of monitors
OneIdentityPerSet(doc) ==
    \A i, j \in DOMAIN doc.monitor_sets :
        i # j => Range(doc.monitor_sets[i].monitor_ids) # Range(doc.monitor_sets[j].monitor_ids)

\* C6 (SpecStore): the identity found for a set of monitors does not depend
\* on the order in which the monitors are enumerated or were stored, save
\* and load return it, and no second identity is ever minted for a set,
\* in memory or in the file.
C6_SameSetSameIdentity ==
    /\ OneIdentityPerSet(saved_profiles)
    /\ OneIdentityPerSet(disk)
    /\ \A mons \in Enumerations :
          MonitorIdsOf(mons) = MonitorIdsOf(monitors)
              => Resolve(saved_profiles, mons) = Resolve(saved_profiles, monitors)
    /\ op.name \in {"save", "load"}
          => op.args.id # 0 /\ op.args.id = Resolve(saved_profiles, monitors)

\* C6 witness: a load finds the identity that the file stores with the
\* monitors listed in another order than they are enumerated now
C6_Witness ==
    /\ op.name = "load"
    /\ Len(monitors) = 2
    /\ \E i \in DOMAIN disk.monitor_sets :
          /\ disk.monitor_sets[i].id = op.args.id
          /\ disk.monitor_sets[i].monitor_ids # [k \in DOMAIN monitors |-> monitors[k].id]

\* C7 (SpecStore): two different sets of monitors never resolve to the same
\* identity, also when one contains the other; the identity that save or
\* load uses is stored with exactly the current monitor ids, as a set.
C7_DifferentSetsDifferentIdentities ==
    /\ \A a, b \in Enumerations :
          MonitorIdsOf(a) # MonitorIdsOf(b)
              => \/ Resolve(saved_profiles, a) = 0
                 \/ Resolve(saved_profiles, a) # Resolve(saved_profiles, b)
    /\ op.name \in {"save", "load"}
          => \A i \in DOMAIN saved_profiles.monitor_sets :
                 saved_profiles.monitor_sets[i].id = op.args.id
                     => Range(saved_profiles.monitor_sets[i].monitor_ids)
                            = MonitorIdsOf(monitors)

\* C7 witness: the file holds an identity for {m1} and one for {m1, m2}, and
\* a session with both monitors has loaded
C7_Witness ==
    /\ op.name = "load"
    /\ MonitorIdsOf(monitors) = {"m1", "m2"}
    /\ \E i, j \in DOMAIN disk.monitor_sets :
          /\ Range(disk.monitor_sets[i].monitor_ids) = {"m1"}
          /\ Range(disk.monitor_sets[j].monitor_ids) = {"m1", "m2"}

\* The numbers of the allocation map without a rectangle in the grid
OutOfRange(mp) == (DOMAIN mp.app_table.grid_mapping) \ (DOMAIN mp.rectangle_mapping)

\* C11 (SpecSnap): when the allocation map holds a number that has no
\* rectangle in the grid, snap raises no error, issues no OS call for the
\* windows held only by such numbers, and moves every window of a number
\* that has a rectangle to the corner of that rectangle (less its borders).
C11_OutOfRangeCellIgnored ==
    (op.name = "snap" /\ OutOfRange(TheMP) # {}) =>
        /\ ~ op.raised
        /\ \A k \in OutOfRange(TheMP) : \A w \in TheTable.grid_mapping[k] :
              AssignedCells(TheMP, w) = {}
                  => \A i \in DOMAIN oscalls : oscalls[i].hwnd # w
        /\ \A w \in Windows : \A k \in AssignedCells(TheMP, w) :
              \E i \in DOMAIN oscalls :
                  /\ IsMove(oscalls[i])
                  /\ oscalls[i].hwnd = w
                  /\ oscalls[i].x = TheMP.rectangle_mapping[k].left
                                      - get_window_borders(BorderOf[w])[1]
                  /\ oscalls[i].y = TheMP.rectangle_mapping[k].top
                                      - get_window_borders(BorderOf[w])[3]

\* C11 witness: a snap with a window in a number that has no rectangle and
\* another window in a number that has one
C11_Witness ==
    /\ op.name = "snap"
    /\ \E k \in OutOfRange(TheMP) : TheTable.grid_mapping[k] # {}
    /\ \E w \in Windows : AssignedCells(TheMP, w) # {}
    /\ oscalls # << >>

\* C12 (Spec): a live-window refresh leaves in every cell of the table
\* exactly the windows that were selected in that cell and are still live:
\* none that is gone stays, none that is live is dropped or moves to
\* another cell.
C12_RefreshKeepsLiveSelections ==
    [][op'.name = "refresh_windows" =>
          /\ DOMAIN TheTable'.grid_mapping = 1..TheTable'.nrows
          /\ \A k \in 1..TheTable'.nrows :
                TheTable'.grid_mapping[k] =
                    Get(TheTable.grid_mapping, k) \cap ACTIVE_WINDOWS']_vars

\* C12 witness: after a refresh a window that was selected is gone and a
\* cell still holds a selection
C12_Witness ==
    /\ op.name = "refresh_windows"
    /\ TheTable.allocated_windows \ ACTIVE_WINDOWS # {}
    /\ \E k \in DOMAIN TheTable.grid_mapping : TheTable.grid_mapping[k] # {}

\* C13 (SpecFixed): the names listed for a cell are exactly the names
\* selected in that cell together with every live name selected in no cell.
C13_CandidatesAreOwnPlusUnselected ==
    \A k \in 1..TheTable.nrows :
        TheTable.tables[k] =
            Get(TheTable.grid_mapping, k)
                \cup (ACTIVE_WINDOWS \ UnionOf(TheTable.grid_mapping))

\* C20 (Spec): the names listed for a cell never include a window that is
\* selected in another cell of the same table.
C20_CandidatesExcludeOtherCells ==
    \A a, b \in 1..TheTable.nrows :
        a # b => TheTable.tables[a] \cap Get(TheTable.grid_mapping, b) = {}

\* C14 (SpecBands): input_callback with a requested row or column count
\* below 1 does not raise; it stores 1 for that count (and the request for
\* a count of at least 1), the grid has at least one row and one column,
\* and the axis of a count below 1 gets no divider.
C14_CountsClampedToOne ==
    op.name = "input_callback" =>
        LET value == op.args.value
            mp == TheMP
        IN  /\ ~ op.raised
            /\ mp.input[1] >= 1 /\ mp.input[2] >= 1
            /\ mp.input[1] = (IF value[1] < 1 THEN 1 ELSE value[1])
            /\ mp.input[2] = (IF value[2] < 1 THEN 1 ELSE value[2])
            /\ value[1] < 1 => mp.ylines = << >>
            /\ value[2] < 1 => mp.xlines = << >>
            /\ Len(mp.ylines) = mp.input[1] - 1
            /\ Len(mp.xlines) = mp.input[2] - 1
            /\ Len(mp.rectangle_mapping) = mp.input[1] * mp.input[2]
            /\ mp.app_table.nrows = mp.input[1] * mp.input[2]

\* C14 witness: a request for no rows and two columns
C14_Witness ==
    /\ op.name = "input_callback"
    /\ op.args.value = <<0, 2>>
    /\ TheMP.input = <<1, 2>>

\* C15 (SpecLoad): a load that finds no saved profiles for the monitors
\* raises no error and leaves the tabs, with their grids and selections,
\* and the tab counter as they were.
C15_LoadWithoutSavedProfiles ==
    [][(op'.name = "load" /\ op'.args.found = 0) =>
          /\ ~ op'.raised
          /\ profiles' = profiles
          /\ tab_number' = tab_number]_vars

\* C15 witness: a load found nothing while two tabs were open, the grid of
\* the first was changed and a window was selected in it
C15_Witness ==
    /\ op.name = "load"
    /\ op.args.found = 0
    /\ op.args.id \notin DOMAIN saved_profiles.profiles
    /\ Cardinality(DOMAIN profiles) = 2
    /\ profiles[1]["m1"].input = <<1, 2>>
    /\ op.args.selected_before # {}
    /\ SelectedAnywhere(profiles) = op.args.selected_before

\* The entries of a saved document hold only the two lists of dividers
OnlyDividers(doc) ==
    \A id \in DOMAIN doc.profiles : \A i \in DOMAIN doc.profiles[id] :
        \A m \in DOMAIN doc.profiles[id][i] :
            DOMAIN doc.profiles[id][i][m] = {"xlines", "ylines"}

\* C16 (SpecLoad): the document save writes holds, per profile and monitor
\* id, only xlines and ylines, and after a load that found saved profiles
\* no cell of any monitor profile holds a selection.
C16_AllocationsNotPersisted ==
    /\ OnlyDividers(disk)
    /\ OnlyDividers(saved_profiles)
    /\ (op.name = "load" /\ op.args.found > 0) =>
          \A t \in DOMAIN profiles : \A m \in DOMAIN profiles[t] :
              Cleared(profiles[t][m].app_table)

\* C16 witness: a load found saved profiles while a window was selected
C16_Witness ==
    /\ op.name = "load"
    /\ op.args.found > 0
    /\ op.args.selected_before # {}
    /\ disk.profiles # << >>

\* C17 (SpecRect): for any four bounds the constructor yields a rectangle
\* with left <= right and top <= bottom, made of the same two horizontal
\* and the same two vertical bounds (swapped when given inverted), so its
\* width and height are not negative.
C17_RectangleNormalized ==
    op.name = "Rectangle" =>
        LET a == op.args
            r == a.rect
        IN  /\ ~ op.raised
            /\ r.left <= r.right
            /\ r.top <= r.bottom
            /\ width(r) >= 0
            /\ height(r) >= 0
            /\ <<r.left, r.right>> =
                   (IF a.left > a.right THEN <<a.right, a.left>> ELSE <<a.left, a.right>>)
            /\ <<r.top, r.bottom>> =
                   (IF a.top > a.bottom THEN <<a.bottom, a.top>> ELSE <<a.top, a.bottom>>)

\* C17 witness: a rectangle made from bounds inverted on both axes
C17_Witness ==
    /\ op.name = "Rectangle"
    /\ op.args.left > op.args.right
    /\ op.args.top > op.args.bottom
    /\ op.args.rect.left = op.args.right
    /\ op.args.rect.top = op.args.bottom

RECURSIVE SeqSum(_)
SeqSum(q) == IF q = << >> THEN 0 ELSE Head(q) + SeqSum(Tail(q))

\* The width percentages shown for the column bands, left to right (the
\* labels of the first row), in hundredths
ColumnPercents(mp) ==
    [i \in 1..(Len(mp.xlines) + 1) |-> mp.labels[i].x_percent]

\* The height percentages shown for the row bands (the first label of each
\* row), in hundredths
RowPercents(mp) ==
    [j \in 1..(Len(mp.ylines) + 1) |->
        mp.labels[(j - 1) * (Len(mp.xlines) + 1) + 1].y_percent]

\* C18 (SpecBands): the width percentages of the column bands add up to 100
\* and so do the height percentages of the row bands, each shown value
\* being off by at most half a hundredth; every row of labels shows the
\* same column percentages and every label of a row the same row percentage.
C18_PercentagesSumTo100 ==
    LET mp == TheMP
        nx == Len(mp.xlines) + 1
        ny == Len(mp.ylines) + 1
    IN  /\ Len(mp.labels) = nx * ny
        /\ 2 * Abs(SeqSum(ColumnPercents(mp)) - 10000) <= nx
        /\ 2 * Abs(SeqSum(RowPercents(mp)) - 10000) <= ny
        /\ \A n \in 1..(nx * ny) :
              /\ mp.labels[n].x_percent = ColumnPercents(mp)[((n - 1) % nx) + 1]
              /\ mp.labels[n].y_percent = RowPercents(mp)[((n - 1) \div nx) + 1]

\* C18 witness: three column bands after a drag, and three row bands whose
\* shown percentages do not add up to 100.00 exactly
C18_Witness ==
    /\ op.name = "line_callback"
    /\ Len(TheMP.xlines) = 2
    /\ Len(TheMP.ylines) = 2
    /\ SeqSum(RowPercents(TheMP)) # 10000
    /\ ColumnPercents(TheMP)[1] # ColumnPercents(TheMP)[2]

\* C19 (SpecGrid): for dividers strictly inside the work area every value
\* to_dict writes into xlines or ylines is greater than 0 and less than 1.
C19_FractionsInOpenUnitInterval ==
    ValidGrid(TheMP) =>
        LET d == to_dict(TheMP)
        IN  /\ \A i \in DOMAIN d.xlines :
                  0 < d.xlines[i].num /\ d.xlines[i].num < d.xlines[i].den
            /\ \A i \in DOMAIN d.ylines :
                  0 < d.ylines[i].num /\ d.ylines[i].num < d.ylines[i].den

\* C21 (SpecDrag): line_callback leaves the application table (the
\* selections of its cells, the allocated set, the rows and what they list)
\* as it was, and the number of dividers, of cells and the grid input too.
C21_DragChangesOnlyGrid ==
    [][op'.name = "line_callback" =>
          /\ TheTable' = TheTable
          /\ Len(TheMP'.xlines) = Len(TheMP.xlines)
          /\ Len(TheMP'.ylines) = Len(TheMP.ylines)
          /\ Len(TheMP'.rectangle_mapping) = Len(TheMP.rectangle_mapping)
          /\ TheMP'.input = TheMP.input]_vars

\* C21 witness: a divider was dragged off its default position while a
\* cell holds a selection
C21_Witness ==
    /\ op.name = "line_callback"
    /\ TheTable.allocated_windows # {}
    /\ \E k \in DOMAIN TheTable.grid_mapping : TheTable.grid_mapping[k] # {}
    /\ <<TheMP.xlines, TheMP.ylines>> #
           <<input_callback(TheMP, TheMP.input, {}).xlines,
             input_callback(TheMP, TheMP.input, {}).ylines>>

\* v is the whole number int() makes of n / d (d > 0): the next whole
\* number toward zero
IsIntOf(v, n, d) ==
    IF n >= 0 THEN v * d <= n /\ n < (v + 1) * d
    ELSE (v - 1) * d < n /\ n <= v * d

MirrorY2(work, y2) == 2 * (work.top + work.bottom) - y2

\* The label sits at the center of the band pair (i, j) and shows the shares
\* of that pair; with mirrored, its place is read on the mirrored plot
LabelShowsBand(mp, label, i, j, mirrored) ==
    LET work == mp.monitor.work
        xe == XEdges(mp)
        ye == YEdges(mp)
        cy2 == ye[j] + ye[j + 1]
    IN  /\ label.x2 = xe[i] + xe[i + 1]
        /\ label.y2 = (IF mirrored THEN MirrorY2(work, cy2) ELSE cy2)
        /\ label.x_percent = Percent(xe[i + 1] - xe[i], width(work))
        /\ label.y_percent = Percent(ye[j + 1] - ye[j], height(work))

\* C22 (SpecGrid): every label sits at the center of a cell and shows that
\* cell's width as a share of the work width and that cell's height as a
\* share of the work height (reading the plot's y axis either way, the same
\* way for all labels).
C22_LabelShowsItsOwnCell ==
    ValidGrid(TheMP) =>
        \E mirrored \in BOOLEAN : \A n \in DOMAIN TheMP.labels :
            \E i \in 1..(Len(TheMP.xlines) + 1), j \in 1..(Len(TheMP.ylines) + 1) :
                LabelShowsBand(TheMP, TheMP.labels[n], i, j, mirrored)

\* C25 (SpecGrid): for every number n the label n is drawn at the center of
\* the rectangle snap uses for n (reading the plot's y axis either way, the
\* same way for all numbers).
C25_LabelsNumberedAsRectangles ==
    ValidGrid(TheMP) =>
        /\ DOMAIN TheMP.labels = DOMAIN TheMP.rectangle_mapping
        /\ \E mirrored \in BOOLEAN : \A n \in DOMAIN TheMP.labels :
              LET r == TheMP.rectangle_mapping[n]
                  cy2 == r.top + r.bottom
              IN  /\ TheMP.labels[n].x2 = r.left + r.right
                  /\ TheMP.labels[n].y2 =
                         (IF mirrored THEN MirrorY2(TheMP.monitor.work, cy2) ELSE cy2)

\* C26 (Spec): the set of allocated windows is the union of the selections
\* of all cells.
C26_AllocatedIsUnionOfSelections ==
    TheTable.allocated_windows = UnionOf(TheTable.grid_mapping)

\* C23 (SpecStore): save stores the current profiles, serialized, under the
\* identity of the current monitors in place of what was stored there,
\* leaves the lists stored under every other identity and every monitor_sets
\* entry that existed as they were, and writes that whole document to the
\* file.
C23_SaveReplacesOwnListOnly ==
    [][op'.name = "save" =>
          LET id == op'.args.id
              old == saved_profiles
              new == saved_profiles'
          IN  /\ new.profiles[id] = SerializedProfiles(profiles)
              /\ DOMAIN new.profiles = (DOMAIN old.profiles) \cup {id}
              /\ \A o \in (DOMAIN old.profiles) \ {id} : new.profiles[o] = old.profiles[o]
              /\ Len(new.monitor_sets) \in {Len(old.monitor_sets), Len(old.monitor_sets) + 1}
              /\ SubSeq(new.monitor_sets, 1, Len(old.monitor_sets)) = old.monitor_sets
              /\ disk' = new]_vars

\* C23 witness: a save replaced a different list saved earlier for the same
\* monitors while the document holds a list for other monitors
C23_Witness ==
    /\ op.name = "save"
    /\ op.args.previous # << >>
    /\ op.args.previous # disk.profiles[op.args.id]
    /\ Cardinality(DOMAIN disk.profiles) >= 2

\* The serialized profiles under an identity have the monitor ids of that
\* identity's monitor set as keys
KeysMatchMonitorSets(doc) ==
    \A id \in DOMAIN doc.profiles :
        \E i \in DOMAIN doc.monitor_sets :
            /\ doc.monitor_sets[i].id = id
            /\ \A k \in DOMAIN doc.profiles[id] :
                  DOMAIN doc.profiles[id][k] = Range(doc.monitor_sets[i].monitor_ids)

\* C30 (SpecStore): every serialized profile stored under an identity has as
\* keys exactly the monitor ids stored for that identity, in memory and in
\* the file, and no load fails on a monitor id it has no profile for.
C30_SavedKeysMatchMonitorSet ==
    /\ KeysMatchMonitorSets(saved_profiles)
    /\ KeysMatchMonitorSets(disk)
    /\ op.name = "load" => ~ op.raised

\* C30 witness: a session with two monitors loaded profiles while the file
\* also holds profiles saved with one monitor
C30_Witness ==
    /\ op.name = "load"
    /\ op.args.found > 0
    /\ MonitorIdsOf(monitors) = {"m1", "m2"}
    /\ \E id \in DOMAIN disk.profiles : DOMAIN disk.profiles[id][1] = {"m1"}

\* C28 (SpecLoad): after a load that found saved profiles the grid input of
\* every monitor profile shows (rows, cols) as input_callback reads it: rows
\* is the number of horizontal dividers plus 1 and cols the number of
\* vertical dividers plus 1, so submitting the shown value again keeps the
\* numbers of dividers.
C28_LoadedInputConvention ==
    (op.name = "load" /\ op.args.found > 0) =>
        \A t \in DOMAIN profiles : \A m \in DOMAIN profiles[t] :
            LET mp == profiles[t][m]
                again == input_callback(mp, mp.input, ACTIVE_WINDOWS)
            IN  /\ mp.input = <<Len(mp.ylines) + 1, Len(mp.xlines) + 1>>
                /\ Len(again.ylines) = Len(mp.ylines)
                /\ Len(again.xlines) = Len(mp.xlines)

\* C29 (SpecGrid): when the dividers lie strictly inside the work area,
\* loading what to_dict writes puts every column divider between work.left
\* and work.right and every row divider between work.top and work.bottom.
C29_LoadedDividersInsideWork ==
    LET mp == TheMP
        work == mp.monitor.work
        loaded == load_dict(NewMonitorProfile(mp.monitor, ACTIVE_WINDOWS), to_dict(mp),
                            ACTIVE_WINDOWS)
    IN  ValidGrid(mp) =>
            /\ \A i \in DOMAIN loaded.xlines :
                  work.left <= loaded.xlines[i] /\ loaded.xlines[i] <= work.right
            /\ \A i \in DOMAIN loaded.ylines :
                  work.top <= loaded.ylines[i] /\ loaded.ylines[i] <= work.bottom

\* C27 (SpecSession): in every state, and so whenever snap runs, every
\* window selected in a cell of a monitor profile of an open tab is a key
\* of the live-window registry ACTIVE_WINDOWS; snap's lookup of a window
\* never raises.
C27_SelectionsAreLiveWindows ==
    /\ \A t \in DOMAIN profiles : \A m \in DOMAIN profiles[t] :
          Mapped(profiles[t][m]) \subseteq ACTIVE_WINDOWS
    /\ op.name = "snap" => ~ op.raised

\* snap has moved a window of a table in which a window that was selected
\* has since been closed
C27_Witness ==
    /\ op.name = "snap"
    /\ op.tab \in DOMAIN profiles
    /\ oscalls # << >>
    /\ MP(op.tab, "m1").app_table.allocated_windows \ ACTIVE_WINDOWS # {}

====
